---- MODULE Spec2Model ----
(***************************************************************************)
(* Model of service/user.go: the in-memory user service (users and         *)
(* sessions maps) with its five operations HealthCheck,                    *)
(* SendMainTemplateData, Register, Login and Logout.                       *)
(*                                                                         *)
(* Every call runs in a caller (a goroutine of the transport layer).  A    *)
(* caller's position pc[p] is the line of user.go it is executing; the     *)
(* statement at that line takes effect in the step that leaves it.  The    *)
(* service holds no lock, so under Spec callers interleave at every        *)
(* statement that touches a store map.  SeqSpec runs the same steps with   *)
(* one call at a time.                                                     *)
(*                                                                         *)
(* Go strings that the code inspects (tokens) are sequences of             *)
(* characters; usernames and passwords, which the code only compares and   *)
(* stores, are atoms.                                                      *)
(***************************************************************************)
EXTENDS Integers, Sequences, FiniteSets, TLC

\* ---------------------------------------------------------------- bounds
NumProcs == 2        \* concurrent callers
MaxSessions == 2     \* session identifiers uuid.New() hands out in a run

Procs == 1..NumProcs
SessionIDs == 1..MaxSessions
Users == {"alice", "bob"}
Passwords == {"s3cret", "hunter2"}
Salts == {"saltA", "saltB"}

\* ------------------------------------------------------------- constants
MainTemplate == "main.gohtml"

\* error kinds; "nil" is Go's nil error
Nil == "nil"
AlreadyRegistered == "AlreadyRegistered"
HashingFailure == "HashingFailure"
UserNotFound == "UserNotFound"
PasswordMismatch == "PasswordMismatch"
TokenFailure == "TokenFailure"
InvalidToken == "InvalidToken"
SessionNotFound == "SessionNotFound"

\* ------------------------------------------------------------ maps (Go)
EmptyMap == [k \in {} |-> Nil]
Has(m, k) == k \in DOMAIN m
Put(m, k, v) == [x \in (DOMAIN m) \cup {k} |-> IF x = k THEN v ELSE m[x]]
Delete(m, k) == [x \in (DOMAIN m) \ {k} |-> m[x]]

\* ------------------------------------------------------- strings.TrimSpace
Whitespace == {" ", "\t"}

RECURSIVE TrimLeft(_)
TrimLeft(s) ==
    IF s # <<>> /\ Head(s) \in Whitespace THEN TrimLeft(Tail(s)) ELSE s

RECURSIVE TrimRight(_)
TrimRight(s) ==
    IF s # <<>> /\ s[Len(s)] \in Whitespace
    THEN TrimRight(SubSeq(s, 1, Len(s) - 1)) ELSE s

\* a bug: the token is compared with "" untrimmed
TrimSpace_None(s) == s

TrimSpace(s) == TrimRight(TrimLeft(s))

\* ------------------------------------------------------------ token codec
\* CreateToken and ParseToken belong to package service but are not part of
\* user.go.  Encode is the bijection of spec section 4.4; the call sites
\* (lines 67-68, 120-121, 129-130) fix the (value, error) signatures.
Encode(sid) == <<"tok", ToString(sid)>>

ParseToken(token) ==
    IF \E sid \in SessionIDs : token = Encode(sid)
    THEN [err |-> Nil, sid |-> CHOOSE sid \in SessionIDs : token = Encode(sid)]
    ELSE [err |-> InvalidToken, sid |-> 0]

\* the outcomes of one CreateToken call: the token, or an error
CreateToken(sid) ==
    {[err |-> Nil, token |-> Encode(sid)], [err |-> TokenFailure, token |-> <<>>]}

\* ------------------------------------------------------------------ bcrypt
NoHash == [salt |-> "", digest |-> <<>>]
Bcrypt(v, salt) == [salt |-> salt, digest |-> <<salt, v>>]

\* hashValue: bcrypt.GenerateFromPassword draws a random salt and may fail
hashValue(v) ==
    {[err |-> Nil, hash |-> Bcrypt(v, s)] : s \in Salts}
        \cup {[err |-> HashingFailure, hash |-> NoHash]}

\* a bug: the result of the comparison is dropped
checkPasswordHash_AnyPassword(pass, hash) == Nil

\* checkPasswordHash: bcrypt.CompareHashAndPassword rehashes pass under the
\* salt of the stored hash and compares
checkPasswordHash(pass, hash) ==
    IF Bcrypt(pass, hash.salt) = hash THEN Nil ELSE PasswordMismatch

\* ---------------------------------------------------------- render context
TemplateVariables(session, user) ==
    [Name |-> "", LoginMessage |-> "", ErrorMessage |-> Nil,
     Session |-> session, User |-> user]

TemplateRender(session, user) ==
    [Metadata |-> [Name |-> MainTemplate],
     Variables |-> TemplateVariables(session, user)]

UserFields(user, hashedPass) ==
    [Username |-> user, HashedPassword |-> hashedPass]

\* ------------------------------------------------------- results of calls
\* a call's return values: val is the first return value, err the error
Ret(val, err) == [val |-> val, err |-> err]

\* a bug: another status string
HealthCheckResult_Other == Ret("healthy", Nil)

HealthCheckResult == Ret("ok", Nil)
BlankResult == Ret(TemplateRender(<<>>, ""), Nil)
ParseErrorResult(token) == Ret(TemplateRender(<<>>, ""), InvalidToken)
\* a bug: the context of the error path keeps the token
NoSessionResult_KeepsSession(token) == Ret(TemplateRender(token, ""), SessionNotFound)

NoSessionResult(token) == Ret(TemplateRender(<<>>, ""), SessionNotFound)
\* a bug: the resolved username is left out of the context
ResolvedResult_NoUser(token, user) == Ret(TemplateRender(token, ""), Nil)

ResolvedResult(token, user) == Ret(TemplateRender(token, user), Nil)
RegisterSuccess == Ret("REGISTER SUCCESSFUL", Nil)
RegisterFailure(err) == Ret("", err)
LoginSuccess(token) == Ret(token, Nil)
LoginFailure(err) == Ret(<<>>, err)
LogoutResult(err) == Ret("", err)

\* ------------------------------------------------------------------ state
VARIABLES
    users,       \* userService.users: username -> UserFields
    sessions,    \* userService.sessions: session identifier -> username
    nextID,      \* the next identifier uuid.New() returns
    crashed,     \* the Go runtime ended the process (fatal error)
    pc,          \* per caller: "idle", the line it is at, or "done"
    op,          \* per caller: the call in progress and its arguments
    loc,         \* per caller: the locals of the call
    ret,         \* per caller: the return values, once pc = "done"
    pre,         \* history: the stores as the call found them, for a call that
                 \* began with no other call in progress
    consulted,   \* history: the call has invoked the token codec
    registered,  \* history: username -> what its first successful Register stored
    issued,      \* history: token -> the username given to the Login that returned it
    loggedOut    \* history: the tokens a Logout has succeeded with

vars == <<users, sessions, nextID, crashed, pc, op, loc, ret, pre, consulted,
          registered, issued, loggedOut>>

NoOp == [name |-> "", user |-> "", pass |-> "", token |-> <<>>]
NoLoc == [hashedPass |-> NoHash, userFields |-> UserFields("", NoHash), sessionID |-> 0]
NoRet == Ret("", Nil)
NoPre == [alone |-> FALSE, users |-> EmptyMap, sessions |-> EmptyMap, loggedOut |-> {}]

\* the tokens callers present: empty, blank, malformed, and well-formed ones
BlankTokens == {<<>>, <<" ">>, <<"\t", " ">>}
MalformedTokens == {<<"x">>, <<" ", "tok", "1">>}
TokenInputs == BlankTokens \cup MalformedTokens \cup {Encode(sid) : sid \in SessionIDs}

CallInputs ==
    {[name |-> "HealthCheck", user |-> "", pass |-> "", token |-> <<>>]}
    \cup {[name |-> "SendMainTemplateData", user |-> "", pass |-> "", token |-> t] :
             t \in TokenInputs}
    \cup {[name |-> n, user |-> u, pass |-> w, token |-> <<>>] :
             n \in {"Register", "Login"}, u \in Users, w \in Passwords}
    \cup {[name |-> "Logout", user |-> "", pass |-> "", token |-> t] :
             t \in TokenInputs}

\* the calls concurrent callers make: those that meet on one username and on
\* the tokens of the sessions, with one blank and one malformed token
RaceInputs ==
    {c \in CallInputs :
        /\ c.user \in {"", "alice"}
        /\ c.token \in {<<>>, <<"x">>} \cup {Encode(sid) : sid \in SessionIDs}}

\* the first line of each operation
Entry(name) ==
    CASE name = "HealthCheck" -> "L56"
      [] name = "SendMainTemplateData" -> "L60"
      [] name = "Register" -> "L90"
      [] name = "Login" -> "L108"
      [] name = "Logout" -> "L129"

\* NewUserService: both maps empty
Init ==
    /\ users = EmptyMap
    /\ sessions = EmptyMap
    /\ nextID = 1
    /\ crashed = FALSE
    /\ pc = [p \in Procs |-> "idle"]
    /\ op = [p \in Procs |-> NoOp]
    /\ loc = [p \in Procs |-> NoLoc]
    /\ ret = [p \in Procs |-> NoRet]
    /\ pre = NoPre
    /\ consulted = [p \in Procs |-> FALSE]
    /\ registered = EmptyMap
    /\ issued = EmptyMap
    /\ loggedOut = {}

At(p, line) == ~crashed /\ pc[p] = line

\* Logins that have not drawn their session identifier yet
PendingLogins == {q \in Procs : op[q].name = "Login" /\ pc[q] \in {"L108", "L113", "L117"}}

\* the caller returns: its frame is gone
Goto(p, line) == pc' = [pc EXCEPT ![p] = line]
Return(p, r) == /\ pc' = [pc EXCEPT ![p] = "done"]
                /\ ret' = [ret EXCEPT ![p] = r]

Stores == <<users, sessions, nextID>>
History == <<registered, issued, loggedOut>>

\* a caller invokes an operation of the service
Call(p, c) ==
    /\ At(p, "idle")
    /\ c.name = "Login" => nextID + Cardinality(PendingLogins) <= MaxSessions
    /\ op' = [op EXCEPT ![p] = c]
    /\ pre' = IF \A q \in Procs : pc[q] = "idle"
              THEN [alone |-> TRUE, users |-> users, sessions |-> sessions,
                    loggedOut |-> loggedOut]
              ELSE NoPre
    /\ Goto(p, Entry(c.name))
    /\ UNCHANGED <<Stores, History, crashed, loc, ret, consulted>>

\* the caller takes the return values and is free for its next call
Finish(p) ==
    /\ At(p, "done")
    /\ pc' = [pc EXCEPT ![p] = "idle"]
    /\ op' = [op EXCEPT ![p] = NoOp]
    /\ loc' = [loc EXCEPT ![p] = NoLoc]
    /\ ret' = [ret EXCEPT ![p] = NoRet]
    /\ pre' = NoPre
    /\ consulted' = [consulted EXCEPT ![p] = FALSE]
    /\ UNCHANGED <<Stores, History, crashed>>

\* HealthCheck, line 56
HealthCheck(p) ==
    /\ At(p, "L56")
    /\ Return(p, HealthCheckResult)
    /\ UNCHANGED <<Stores, History, crashed, op, loc, pre, consulted>>

\* SendMainTemplateData, lines 60-73: the blank test and the decoding
SendMainTemplateData_L60(p) ==
    /\ At(p, "L60")
    /\ \/ /\ TrimSpace(op[p].token) = <<>>
          /\ Return(p, BlankResult)
          /\ UNCHANGED <<loc, consulted>>
       \/ /\ TrimSpace(op[p].token) # <<>>
          /\ ParseToken(op[p].token).err # Nil
          /\ Return(p, ParseErrorResult(op[p].token))
          /\ consulted' = [consulted EXCEPT ![p] = TRUE]
          /\ UNCHANGED loc
       \/ /\ TrimSpace(op[p].token) # <<>>
          /\ ParseToken(op[p].token).err = Nil
          /\ loc' = [loc EXCEPT ![p].sessionID = ParseToken(op[p].token).sid]
          /\ consulted' = [consulted EXCEPT ![p] = TRUE]
          /\ Goto(p, "L75")
          /\ UNCHANGED ret
    /\ UNCHANGED <<Stores, History, crashed, op, pre>>

\* SendMainTemplateData, lines 75-86: the read of sessions
SendMainTemplateData_L75(p) ==
    /\ At(p, "L75")
    /\ \/ /\ ~Has(sessions, loc[p].sessionID)
          /\ Return(p, NoSessionResult(op[p].token))
       \/ /\ Has(sessions, loc[p].sessionID)
          /\ Return(p, ResolvedResult(op[p].token, sessions[loc[p].sessionID]))
    /\ UNCHANGED <<Stores, History, crashed, op, loc, pre, consulted>>

\* a bug: Register hashes before it looks the username up
Register_L90_HashFirst(p) ==
    /\ At(p, "L90")
    /\ \E h \in hashValue(op[p].pass) :
          \/ /\ h.err # Nil
             /\ Return(p, RegisterFailure(h.err))
          \/ /\ h.err = Nil
             /\ Has(users, op[p].user)
             /\ Return(p, RegisterFailure(AlreadyRegistered))
          \/ /\ h.err = Nil
             /\ ~Has(users, op[p].user)
             /\ Goto(p, "L94")
             /\ UNCHANGED ret
    /\ UNCHANGED <<Stores, History, crashed, op, loc, pre, consulted>>

\* a bug: Register without the lookup
Register_L90_NoCheck(p) ==
    /\ At(p, "L90")
    /\ Goto(p, "L94")
    /\ UNCHANGED <<Stores, History, crashed, op, loc, ret, pre, consulted>>

\* Register, lines 90-92: the read of users
Register_L90(p) ==
    /\ At(p, "L90")
    /\ \/ /\ Has(users, op[p].user)
          /\ Return(p, RegisterFailure(AlreadyRegistered))
       \/ /\ ~Has(users, op[p].user)
          /\ Goto(p, "L94")
          /\ UNCHANGED ret
    /\ UNCHANGED <<Stores, History, crashed, op, loc, pre, consulted>>

\* Register, lines 94-97: hashing, outside any store access
Register_L94(p) ==
    /\ At(p, "L94")
    /\ \E h \in hashValue(op[p].pass) :
          \/ /\ h.err # Nil
             /\ Return(p, RegisterFailure(h.err))
             /\ UNCHANGED loc
          \/ /\ h.err = Nil
             /\ loc' = [loc EXCEPT ![p].hashedPass = h.hash]
             /\ Goto(p, "L99")
             /\ UNCHANGED ret
    /\ UNCHANGED <<Stores, History, crashed, op, pre, consulted>>

\* Register, lines 99-104: the write of users
Register_L99(p) ==
    /\ At(p, "L99")
    /\ users' = Put(users, op[p].user, UserFields(op[p].user, loc[p].hashedPass))
    /\ registered' =
          IF Has(registered, op[p].user) THEN registered
          ELSE Put(registered, op[p].user,
                   [pass |-> op[p].pass, hash |-> loc[p].hashedPass])
    /\ Return(p, RegisterSuccess)
    /\ UNCHANGED <<sessions, nextID, issued, loggedOut, crashed, op, loc, pre, consulted>>

\* a bug: an unknown username falls through to the creation of the session
Login_L108_NoLookup(p) ==
    /\ At(p, "L108")
    /\ \/ /\ ~Has(users, op[p].user)
          /\ Goto(p, "L117")
          /\ UNCHANGED <<loc, ret>>
       \/ /\ Has(users, op[p].user)
          /\ loc' = [loc EXCEPT ![p].userFields = users[op[p].user]]
          /\ Goto(p, "L113")
          /\ UNCHANGED ret
    /\ UNCHANGED <<Stores, History, crashed, op, pre, consulted>>

\* Login, lines 108-111: the read of users
Login_L108(p) ==
    /\ At(p, "L108")
    /\ \/ /\ ~Has(users, op[p].user)
          /\ Return(p, LoginFailure(UserNotFound))
          /\ UNCHANGED loc
       \/ /\ Has(users, op[p].user)
          /\ loc' = [loc EXCEPT ![p].userFields = users[op[p].user]]
          /\ Goto(p, "L113")
          /\ UNCHANGED ret
    /\ UNCHANGED <<Stores, History, crashed, op, pre, consulted>>

\* Login, lines 113-115: the password check
Login_L113(p) ==
    /\ At(p, "L113")
    /\ \/ /\ checkPasswordHash(op[p].pass, loc[p].userFields.HashedPassword) # Nil
          /\ Return(p, LoginFailure(PasswordMismatch))
       \/ /\ checkPasswordHash(op[p].pass, loc[p].userFields.HashedPassword) = Nil
          /\ Goto(p, "L117")
          /\ UNCHANGED ret
    /\ UNCHANGED <<Stores, History, crashed, op, loc, pre, consulted>>

\* Login, lines 117-118: a fresh identifier and the write of sessions
Login_L117(p) ==
    /\ At(p, "L117")
    /\ loc' = [loc EXCEPT ![p].sessionID = nextID]
    /\ nextID' = nextID + 1
    /\ sessions' = Put(sessions, nextID, op[p].user)
    /\ Goto(p, "L120")
    /\ UNCHANGED <<users, History, crashed, op, ret, pre, consulted>>

\* Login, lines 120-125: the token of the new session
Login_L120(p) ==
    /\ At(p, "L120")
    /\ \E t \in CreateToken(loc[p].sessionID) :
          \/ /\ t.err # Nil
             /\ Return(p, LoginFailure(t.err))
             /\ UNCHANGED issued
          \/ /\ t.err = Nil
             /\ Return(p, LoginSuccess(t.token))
             /\ issued' = Put(issued, t.token, op[p].user)
    /\ consulted' = [consulted EXCEPT ![p] = TRUE]
    /\ UNCHANGED <<Stores, registered, loggedOut, crashed, op, loc, pre>>

\* a bug: Logout treats a blank token as SendMainTemplateData does
Logout_L129_BlankOk(p) ==
    /\ At(p, "L129")
    /\ \/ /\ TrimSpace(op[p].token) = <<>>
          /\ Return(p, LogoutResult(Nil))
          /\ UNCHANGED loc
       \/ /\ TrimSpace(op[p].token) # <<>>
          /\ ParseToken(op[p].token).err # Nil
          /\ Return(p, LogoutResult(InvalidToken))
          /\ UNCHANGED loc
       \/ /\ ParseToken(op[p].token).err = Nil
          /\ loc' = [loc EXCEPT ![p].sessionID = ParseToken(op[p].token).sid]
          /\ Goto(p, "L134")
          /\ UNCHANGED ret
    /\ consulted' = [consulted EXCEPT ![p] = TRUE]
    /\ UNCHANGED <<Stores, History, crashed, op, pre>>

\* Logout, lines 129-132: the decoding
Logout_L129(p) ==
    /\ At(p, "L129")
    /\ \/ /\ ParseToken(op[p].token).err # Nil
          /\ Return(p, LogoutResult(InvalidToken))
          /\ UNCHANGED loc
       \/ /\ ParseToken(op[p].token).err = Nil
          /\ loc' = [loc EXCEPT ![p].sessionID = ParseToken(op[p].token).sid]
          /\ Goto(p, "L134")
          /\ UNCHANGED ret
    /\ consulted' = [consulted EXCEPT ![p] = TRUE]
    /\ UNCHANGED <<Stores, History, crashed, op, pre>>

\* Logout, lines 134-136: the read of sessions
Logout_L134(p) ==
    /\ At(p, "L134")
    /\ \/ /\ ~Has(sessions, loc[p].sessionID)
          /\ Return(p, LogoutResult(SessionNotFound))
       \/ /\ Has(sessions, loc[p].sessionID)
          /\ Goto(p, "L138")
          /\ UNCHANGED ret
    /\ UNCHANGED <<Stores, History, crashed, op, loc, pre, consulted>>

\* a bug: Logout without the delete
Logout_L138_NoDelete(p) ==
    /\ At(p, "L138")
    /\ loggedOut' = loggedOut \cup {op[p].token}
    /\ Return(p, LogoutResult(Nil))
    /\ UNCHANGED <<Stores, registered, issued, crashed, op, loc, pre, consulted>>

\* a bug: Logout ends every session of the user
Logout_L138_AllOfUser(p) ==
    /\ At(p, "L138")
    /\ sessions' = [x \in {y \in DOMAIN sessions :
                               Has(sessions, loc[p].sessionID)
                                   => sessions[y] # sessions[loc[p].sessionID]}
                        |-> sessions[x]]
    /\ loggedOut' = loggedOut \cup {op[p].token}
    /\ Return(p, LogoutResult(Nil))
    /\ UNCHANGED <<users, nextID, registered, issued, crashed, op, loc, pre, consulted>>

\* Logout, lines 138-140: the delete from sessions
Logout_L138(p) ==
    /\ At(p, "L138")
    /\ sessions' = Delete(sessions, loc[p].sessionID)
    /\ loggedOut' = loggedOut \cup {op[p].token}
    /\ Return(p, LogoutResult(Nil))
    /\ UNCHANGED <<users, nextID, registered, issued, crashed, op, loc, pre, consulted>>

\* ------------------------------------------------------------ data races
\* the map a caller's current statement reads or writes
Reads(p, m) ==
    \/ m = "users" /\ pc[p] \in {"L90", "L108"}
    \/ m = "sessions" /\ pc[p] \in {"L75", "L134"}
Writes(p, m) ==
    \/ m = "users" /\ pc[p] = "L99"
    \/ m = "sessions" /\ pc[p] \in {"L117", "L138"}
Maps == {"users", "sessions"}

Racing(p, q, m) == p # q /\ Writes(p, m) /\ (Reads(q, m) \/ Writes(q, m))

\* two unsynchronised accesses to one map, one of them a write: the Go
\* runtime may detect the overlap and end the process ("fatal error:
\* concurrent map writes" or "concurrent map read and map write"); when it
\* does not, the accesses take effect one after the other
Fatal ==
    /\ ~crashed
    /\ \E p, q \in Procs, m \in Maps : Racing(p, q, m)
    /\ crashed' = TRUE
    /\ UNCHANGED <<Stores, History, pc, op, loc, ret, pre, consulted>>

\* the write of sessions that the read of caller p at line 75 overlaps: the
\* delete of the key it looks up, or the insertion of that key
RacedRead(p) ==
    \E q \in Procs \ {p} :
        \/ /\ pc[q] = "L138"
           /\ loc[q].sessionID = loc[p].sessionID
           /\ Has(sessions, loc[p].sessionID)
        \/ /\ pc[q] = "L117"
           /\ nextID = loc[p].sessionID

\* SendMainTemplateData, lines 75-86, when the read of line 75 overlaps such
\* a write and the runtime does not detect it: the lookup finds the key while
\* its value is cleared (delete) or not yet stored (insertion), so ok is true
\* and user is the zero value
SendMainTemplateData_L75_Raced(p) ==
    /\ At(p, "L75")
    /\ RacedRead(p)
    /\ Return(p, ResolvedResult(op[p].token, ""))
    /\ UNCHANGED <<Stores, History, crashed, op, loc, pre, consulted>>

\* ---------------------------------------------------------- specifications
Step(p) ==
    \/ Finish(p)
    \/ HealthCheck(p)
    \/ SendMainTemplateData_L60(p)
    \/ SendMainTemplateData_L75(p)
    \/ Register_L90(p)
    \/ Register_L94(p)
    \/ Register_L99(p)
    \/ Login_L108(p)
    \/ Login_L113(p)
    \/ Login_L117(p)
    \/ Login_L120(p)
    \/ Logout_L129(p)
    \/ Logout_L134(p)
    \/ Logout_L138(p)

\* callers run concurrently
Next ==
    \/ \E p \in Procs, c \in RaceInputs : Call(p, c)
    \/ \E p \in Procs : Step(p)
    \/ \E p \in Procs : SendMainTemplateData_L75_Raced(p)
    \/ Fatal

Spec == Init /\ [][Next]_vars

\* one call at a time: a call begins only when no other is in progress
NoCallInProgress == \A q \in Procs : pc[q] = "idle"

SeqNext ==
    \/ \E p \in Procs, c \in CallInputs : NoCallInProgress /\ Call(p, c)
    \/ \E p \in Procs : Step(p)

SeqSpec == Init /\ [][SeqNext]_vars

\* ------------------------------------------------------------------ claims
Done(p, name) == pc[p] = "done" /\ op[p].name = name

\* a call that ran with no other call in progress
DoneAlone(p, name) == Done(p, name) /\ pre.alone

\* the context of an unauthenticated request, written out
AnonymousContext ==
    [Metadata |-> [Name |-> "main.gohtml"],
     Variables |-> [Name |-> "", LoginMessage |-> "", ErrorMessage |-> "nil",
                    Session |-> <<>>, User |-> ""]]

OnlyWhitespace(token) == \A i \in 1..Len(token) : token[i] \in {" ", "\t"}

\* a Register of an unregistered username ends in one of these errors
C1_RegisterOutcome(p, errs) ==
    DoneAlone(p, "Register") /\ ~Has(pre.users, op[p].user)
        => /\ ret[p].err \in errs
           /\ ret[p].err = Nil =>
                 /\ Has(registered, op[p].user)
                 /\ registered[op[p].user].pass = op[p].pass

\* a Login with the credentials of a successful Register ends in one of these
\* errors, and with a token when the error is nil
C1_LoginOutcome(p, errs) ==
    (/\ DoneAlone(p, "Login")
     /\ Has(registered, op[p].user)
     /\ registered[op[p].user].pass = op[p].pass)
        => /\ ret[p].err \in errs
           /\ ret[p].err = Nil =>
                 /\ Has(issued, ret[p].val)
                 /\ issued[ret[p].val] = op[p].user

\* the token a Login returned, not logged out since, resolves to its user
C1_RenderOutcome(p) ==
    (/\ DoneAlone(p, "SendMainTemplateData")
     /\ Has(issued, op[p].token)
     /\ op[p].token \notin loggedOut)
        => /\ ret[p].err = Nil
           /\ ret[p].val.Variables.User = issued[op[p].token]
           /\ ret[p].val.Variables.Session = op[p].token

\* C1 as stated: Register of an unregistered username succeeds, the Login
\* that follows succeeds with a token T, and SendMainTemplateData(T) succeeds
\* with User = u and Session = T.
C1_Original ==
    \A p \in Procs :
        /\ C1_RegisterOutcome(p, {Nil})
        /\ C1_LoginOutcome(p, {Nil})
        /\ C1_RenderOutcome(p)

\* C1, amended: Register of an unregistered username succeeds unless hashing
\* the password fails; after it succeeded, Login with the same credentials
\* returns a token T unless creating the token fails; SendMainTemplateData(T)
\* then succeeds with User = u and Session = T.
C1_RegisterLoginRender ==
    \A p \in Procs :
        /\ C1_RegisterOutcome(p, {Nil, HashingFailure})
        /\ C1_LoginOutcome(p, {Nil, TokenFailure})
        /\ C1_RenderOutcome(p)

\* a registered user has logged in and the token has been rendered
C1_Witness ==
    \E p \in Procs :
        /\ DoneAlone(p, "SendMainTemplateData")
        /\ Has(issued, op[p].token)
        /\ Has(registered, issued[op[p].token])
        /\ op[p].token \notin loggedOut
        /\ ret[p].val.Variables.User = "bob"

\* C2: a Register of a username that an earlier Register succeeded with fails
\* with AlreadyRegistered, whatever the password, and the record of the
\* username still holds the hash the first call stored.
C2_SecondRegisterFails ==
    /\ \A u \in DOMAIN registered :
          /\ Has(users, u)
          /\ users[u] = [Username |-> u, HashedPassword |-> registered[u].hash]
    /\ \A p \in Procs :
          DoneAlone(p, "Register") /\ Has(pre.users, op[p].user)
              => ret[p].err = AlreadyRegistered /\ users = pre.users

\* a second Register of a username, with another password, has returned
C2_Witness ==
    \E p \in Procs :
        /\ DoneAlone(p, "Register")
        /\ Has(pre.users, op[p].user)
        /\ registered[op[p].user].pass # op[p].pass
        /\ ret[p].err = AlreadyRegistered

\* C3: of the Register calls for one username that run concurrently at most
\* one returns success (the check and the insert are one atomic step).
C3_AtMostOneRegisterSucceeds ==
    \A p, q \in Procs :
        (/\ p # q
         /\ Done(p, "Register") /\ Done(q, "Register")
         /\ op[p].user = op[q].user)
            => ~(ret[p].err = Nil /\ ret[q].err = Nil)

\* C4: Login of an unregistered username fails with UserNotFound, Login with
\* a password other than the registered one fails with PasswordMismatch; both
\* return no token and leave the session store as it was.
C4_LoginFailures ==
    \A p \in Procs :
        DoneAlone(p, "Login") =>
            /\ ~Has(pre.users, op[p].user) =>
                  /\ ret[p] = [val |-> <<>>, err |-> UserNotFound]
                  /\ sessions = pre.sessions
            /\ (Has(pre.users, op[p].user)
                  /\ registered[op[p].user].pass # op[p].pass) =>
                  /\ ret[p] = [val |-> <<>>, err |-> PasswordMismatch]
                  /\ sessions = pre.sessions

\* a Login with the wrong password has returned while a session is live
C4_Witness ==
    \E p \in Procs :
        /\ DoneAlone(p, "Login")
        /\ Has(pre.users, op[p].user)
        /\ registered[op[p].user].pass # op[p].pass
        /\ ret[p].err = PasswordMismatch
        /\ sessions # EmptyMap

\* C5: a Login that returns an error, whatever step failed, leaves no session
\* in the store that was not there before the call.
C5_NoSessionOnFailure ==
    \A p \in Procs :
        DoneAlone(p, "Login") /\ ret[p].err # Nil
            => DOMAIN sessions \subseteq DOMAIN pre.sessions

\* C6: once Logout(T) has succeeded, every later SendMainTemplateData(T) and
\* every later Logout(T) fails with SessionNotFound, whatever calls were made
\* in between.
C6_AfterLogout ==
    \A p \in Procs :
        (/\ DoneAlone(p, "SendMainTemplateData") \/ DoneAlone(p, "Logout")
         /\ op[p].token \in pre.loggedOut)
            => ret[p].err = SessionNotFound

\* a second Logout of a token has returned while another session is live
C6_Witness ==
    \E p \in Procs :
        /\ DoneAlone(p, "Logout")
        /\ op[p].token \in pre.loggedOut
        /\ sessions # EmptyMap
        /\ ret[p].err = SessionNotFound

\* C7: SendMainTemplateData of an empty or whitespace-only token returns the
\* anonymous context and no error, in every state, without a call of the
\* token codec.
C7_BlankToken ==
    \A p \in Procs :
        DoneAlone(p, "SendMainTemplateData") /\ OnlyWhitespace(op[p].token)
            => /\ ret[p] = [val |-> AnonymousContext, err |-> "nil"]
               /\ ~consulted[p]

\* a whitespace-only token has been rendered while users and sessions exist
C7_Witness ==
    \E p \in Procs :
        /\ DoneAlone(p, "SendMainTemplateData")
        /\ op[p].token = <<"\t", " ">>
        /\ users # EmptyMap
        /\ sessions # EmptyMap
        /\ ret[p].err = Nil

\* C8: SendMainTemplateData of a non-blank token that does not decode returns
\* InvalidToken, of a token whose session identifier is not in the store
\* SessionNotFound, both with the anonymous context; a context with a User or
\* a Session comes only with no error.
C8_RenderFailures ==
    \A p \in Procs :
        DoneAlone(p, "SendMainTemplateData") =>
            /\ (~OnlyWhitespace(op[p].token) /\ ParseToken(op[p].token).err # Nil)
                  => ret[p] = [val |-> AnonymousContext, err |-> InvalidToken]
            /\ (ParseToken(op[p].token).err = Nil
                  /\ ~Has(pre.sessions, ParseToken(op[p].token).sid))
                  => ret[p] = [val |-> AnonymousContext, err |-> SessionNotFound]
            /\ (ret[p].val.Variables.User # "" \/ ret[p].val.Variables.Session # <<>>)
                  => ret[p].err = Nil

\* a well-formed token of no live session has been rendered while another
\* session is live
C8_Witness ==
    \E p \in Procs :
        /\ DoneAlone(p, "SendMainTemplateData")
        /\ ParseToken(op[p].token).err = Nil
        /\ ~Has(pre.sessions, ParseToken(op[p].token).sid)
        /\ sessions # EmptyMap
        /\ ret[p].err = SessionNotFound

\* C9: HealthCheck returns "ok" and no error in every state, the initial one
\* included, can always return, and leaves both stores as they were.
C9_HealthCheck ==
    \A p \in Procs :
        /\ pc[p] = "L56" => ENABLED HealthCheck(p)
        /\ DoneAlone(p, "HealthCheck") =>
              /\ ret[p] = [val |-> "ok", err |-> "nil"]
              /\ users = pre.users
              /\ sessions = pre.sessions

\* HealthCheck has returned on the service as NewUserService made it
C9_Witness ==
    \E p \in Procs :
        /\ DoneAlone(p, "HealthCheck")
        /\ users = EmptyMap /\ sessions = EmptyMap /\ nextID = 1
        /\ ret[p].val = "ok"

\* C10: no caller is writing a store map while another caller is reading or
\* writing the same map.
C10_MutualExclusion ==
    \A p, q \in Procs, m \in Maps :
        p # q => ~(Writes(p, m) /\ (Reads(q, m) \/ Writes(q, m)))

\* the session identifier a well-formed token stands for
SidOf(token) == ParseToken(token).sid

\* the call changed the session store by exactly one insertion of a new
\* identifier, bound to user
InsertedOne(user) ==
    \E sid \in DOMAIN sessions \ DOMAIN pre.sessions :
        /\ DOMAIN sessions = DOMAIN pre.sessions \cup {sid}
        /\ sessions[sid] = user
        /\ \A s \in DOMAIN pre.sessions : sessions[s] = pre.sessions[s]

\* the call changed the session store by exactly the removal of sid
RemovedOne(sid) ==
    /\ sid \in DOMAIN pre.sessions
    /\ DOMAIN sessions = DOMAIN pre.sessions \ {sid}
    /\ \A s \in DOMAIN sessions : sessions[s] = pre.sessions[s]

\* C11: a session identifier becomes active only through a successful Login
\* and absent only through a successful Logout of its own token; every other
\* call, and every failing call, leaves the session store as it was; an
\* identifier that was removed is never active again.
C11_SessionLifecycle ==
    /\ \A p \in Procs :
          (pc[p] = "done" /\ pre.alone) =>
              \/ sessions = pre.sessions
              \/ Done(p, "Login") /\ ret[p].err = Nil /\ InsertedOne(op[p].user)
              \/ Done(p, "Logout") /\ ret[p].err = Nil /\ RemovedOne(SidOf(op[p].token))
    /\ \A t \in loggedOut : ~Has(sessions, SidOf(t))

\* C12: a user record is never changed or deleted: a username present in
\* the user store stays present with the same hashed password in every step,
\* of any sequence or interleaving of calls.
C12_UserRecordsKept ==
    [][\A u \in DOMAIN users : Has(users', u) /\ users'[u] = users[u]]_vars

\* C13: a successful Logout(T) removes exactly the session T decodes to: the
\* other sessions keep their usernames and their tokens still resolve in
\* SendMainTemplateData, the user store is unchanged, and a later Login of
\* the user gets a new session.
C13_LogoutRemovesOne ==
    \A p \in Procs :
        /\ (DoneAlone(p, "Logout") /\ ret[p].err = Nil)
              => RemovedOne(SidOf(op[p].token)) /\ users = pre.users
        /\ (/\ DoneAlone(p, "SendMainTemplateData")
            /\ ParseToken(op[p].token).err = Nil
            /\ Has(pre.sessions, SidOf(op[p].token)))
              => /\ ret[p].err = Nil
                 /\ ret[p].val.Variables.User = pre.sessions[SidOf(op[p].token)]
                 /\ ret[p].val.Variables.Session = op[p].token
        /\ (DoneAlone(p, "Login") /\ ret[p].err = Nil)
              => /\ InsertedOne(op[p].user)
                 /\ ret[p].val \notin loggedOut
                 /\ ~Has(pre.sessions, SidOf(ret[p].val))

\* a Logout has succeeded while the same user has another session
C13_Witness ==
    \E p \in Procs :
        /\ DoneAlone(p, "Logout")
        /\ ret[p].err = Nil
        /\ \E s \in DOMAIN sessions : sessions[s] = pre.sessions[SidOf(op[p].token)]

\* C14: Logout fails with InvalidToken when the token does not decode, the
\* empty token included, and with SessionNotFound when it decodes to an
\* identifier that is not live; the two are different errors, and both leave
\* the session store and the user store as they were.
C14_LogoutFailures ==
    \A p \in Procs :
        DoneAlone(p, "Logout") =>
            /\ (op[p].token = <<>> \/ ParseToken(op[p].token).err # Nil)
                  => ret[p].err = "InvalidToken"
            /\ (ParseToken(op[p].token).err = Nil
                  /\ ~Has(pre.sessions, SidOf(op[p].token)))
                  => ret[p].err = "SessionNotFound"
            /\ ret[p].err # Nil => sessions = pre.sessions /\ users = pre.users

\* a Logout of the empty token has failed while a session is live
C14_Witness ==
    \E p \in Procs :
        /\ DoneAlone(p, "Logout")
        /\ op[p].token = <<>>
        /\ ret[p].err = InvalidToken
        /\ sessions # EmptyMap

\* C15: in every reachable state the username of every session in the
\* session store is a key of the user store.
C15_SessionsOfRegisteredUsers ==
    \A sid \in DOMAIN sessions : sessions[sid] \in DOMAIN users

\* two users are registered and each has a live session
C15_Witness ==
    /\ Cardinality(DOMAIN users) = 2
    /\ \A u \in DOMAIN users : \E sid \in DOMAIN sessions : sessions[sid] = u

\* C16: when hashing fails in Register(u, p) for an unregistered u, Register
\* returns HashingFailure, inserts nothing and leaves the user store as it
\* was, so that u can still be registered; for a registered u Register
\* returns AlreadyRegistered whatever hashing would have done.
C16_HashingFailure ==
    \A p \in Procs :
        DoneAlone(p, "Register") =>
            /\ ret[p].err \in {"nil", "AlreadyRegistered", "HashingFailure"}
            /\ ret[p].err = "HashingFailure" =>
                  /\ ~Has(pre.users, op[p].user)
                  /\ ~Has(users, op[p].user)
                  /\ users = pre.users
                  /\ ret[p].val = ""
            /\ Has(pre.users, op[p].user) => ret[p].err = "AlreadyRegistered"
            /\ ~Has(pre.users, op[p].user) => ret[p].err # "AlreadyRegistered"

\* hashing has failed in a Register while another user is registered
C16_Witness ==
    \E p \in Procs :
        /\ DoneAlone(p, "Register")
        /\ ret[p].err = HashingFailure
        /\ users # EmptyMap
        /\ ~Has(users, op[p].user)

\* no call is between its first and its last statement
Quiescent == \A q \in Procs : pc[q] \in {"idle", "done"}

\* the tokens Login has returned and no Logout has succeeded with
LiveTokens == DOMAIN issued \ loggedOut

\* C17: every successful Login creates a session distinct from the live
\* ones; live tokens and live sessions correspond one to one, the number of
\* live sessions is that of successful Logins less that of successful
\* Logouts, and each live token is bound to the username given to the Login
\* that returned it.
C17_OneTokenPerSession ==
    /\ \A p \in Procs :
          (DoneAlone(p, "Login") /\ ret[p].err = Nil) => InsertedOne(op[p].user)
    /\ Quiescent =>
          /\ DOMAIN sessions = {SidOf(t) : t \in LiveTokens}
          /\ Cardinality(DOMAIN sessions)
                = Cardinality(DOMAIN issued) - Cardinality(loggedOut)
          /\ \A t \in LiveTokens : sessions[SidOf(t)] = issued[t]

\* C18: of the Logout calls that run concurrently with the token of one
\* live session exactly one succeeds and the others fail with
\* SessionNotFound (the presence check and the delete are one atomic step).
C18_OneLogoutSucceeds ==
    \A p, q \in Procs :
        (/\ p # q
         /\ Done(p, "Logout") /\ Done(q, "Logout")
         /\ op[p].token = op[q].token
         /\ ret[p].err = Nil)
            => ret[q].err = SessionNotFound

\* the two results SendMainTemplateData may give for a well-formed token
AuthenticatedOrNotFound(token, r) ==
    \/ /\ r.err = Nil
       /\ r.val.Variables.Session = token
       /\ r.val.Variables.User \in Users
    \/ r = [val |-> AnonymousContext, err |-> SessionNotFound]

\* a Logout of the token is running in another caller
LogoutRunning(p, token) ==
    \E q \in Procs \ {p} :
        /\ op[q].name = "Logout"
        /\ op[q].token = token
        /\ pc[q] \notin {"idle", "done"}

\* C19: when SendMainTemplateData(T) runs concurrently with Logout(T) it
\* returns the authenticated context with no error or the anonymous context
\* with SessionNotFound, never a mixed result, and once Logout(T) has
\* succeeded no read of the session of T returns the authenticated context.
C19_LogoutVsRender ==
    [][\A p \in Procs :
          (pc[p] = "L75" /\ pc'[p] = "done") =>
              /\ LogoutRunning(p, op[p].token)
                    => AuthenticatedOrNotFound(op[p].token, ret'[p])
              /\ op[p].token \in loggedOut => ret'[p].err = SessionNotFound]_vars

====
